---- MODULE Spec2Model ----
(***************************************************************************)
(* A model of src/src/process.rs (rust-psutil): the decoders of            *)
(* /proc/[pid]/stat, /proc/[pid]/statm and /proc/[pid]/cmdline, the state  *)
(* character decoder, Process equality and the enumeration all().          *)
(*                                                                         *)
(* Text is a sequence of one-character strings; the NUL character is the   *)
(* atom "NUL".  Machine integers are little-endian sequences of 16-bit     *)
(* limbs, so that u32/u64/i32/i64/usize keep their width.  A call ends in  *)
(* one of three outcomes: Ok(v), Err(kind) (an io::Error value returned to *)
(* the caller) or Panic (unwrap() on None/Err, an index or slice out of    *)
(* range, an overflow in a build with overflow checks: the thread unwinds  *)
(* and no value is returned).                                              *)
(***************************************************************************)
EXTENDS Integers, Sequences, FiniteSets, TLC

VARIABLES
    debug_assertions, \* build profile: TRUE = overflow checks on (debug)
    st_in, st_op, st_pc, st_out,                 \* State::from_str / from_char
    proc_alive, proc_owner, proc_stat, proc_statm, proc_cmdline, \* /proc/[pid]
    new_pc, new_meta, new_out,                   \* Process::new in progress
    exit_point, setuid_point, prev_owner,        \* when the process changed
    n_meta_reads, n_stat_reads,                  \* reads issued by the decode
    in_shape,                                    \* how the record was built
    mem_pc, mem_out,                             \* Memory::new
    cmd_pc, cmd_out,                             \* Process::cmdline_vec
    eq_a, eq_b, eq_pc, eq_out,                   \* Process::eq
    all_entries, all_alive, all_i, all_pc, all_meta, all_processes, all_exited

vars == << debug_assertions, st_in, st_op, st_pc, st_out,
           proc_alive, proc_owner, proc_stat, proc_statm, proc_cmdline,
           new_pc, new_meta, new_out,
           exit_point, setuid_point, prev_owner, n_meta_reads, n_stat_reads,
           in_shape, mem_pc, mem_out, cmd_pc, cmd_out,
           eq_a, eq_b, eq_pc, eq_out,
           all_entries, all_alive, all_i, all_pc, all_meta, all_processes,
           all_exited >>

-----------------------------------------------------------------------------
(* Outcomes                                                                *)

Ok(v) == [kind |-> "Ok", val |-> v]
Err(e) == [kind |-> "Err", err |-> e]
Panic == [kind |-> "Panic"]

\* io::Error values the code builds or propagates
ErrInvalidState == "Invalid state character"
ErrNotSingle == "State is not a single character"
ErrFieldCount == "Unexpected number of fields from /proc/[pid]/stat"
ErrNotFound == "NotFound"

-----------------------------------------------------------------------------
(* Text                                                                    *)

Digit == <<"0", "1", "2", "3", "4", "5", "6", "7", "8", "9">>
IsDigit(c) == \E i \in 1..10 : Digit[i] = c
DigitVal(c) == (CHOOSE i \in 1..10 : Digit[i] = c) - 1

\* decimal text of a natural (to_string)
RECURSIVE Dec(_)
Dec(n) == IF n < 10 THEN <<Digit[n + 1]>>
          ELSE Dec(n \div 10) \o <<Digit[(n % 10) + 1]>>

\* char::is_whitespace on the characters of the model
White == {" ", "\n", "\t"}

\* str::find(c): the 0-based index of the first c, -1 for None
Find(s, c) ==
    IF \E i \in 1..Len(s) : s[i] = c
    THEN (CHOOSE i \in 1..Len(s) : s[i] = c /\ \A j \in 1..(i - 1) : s[j] # c) - 1
    ELSE -1

\* str::rfind(c): the 0-based index of the last c, -1 for None
RFind(s, c) ==
    IF \E i \in 1..Len(s) : s[i] = c
    THEN (CHOOSE i \in 1..Len(s) :
              s[i] = c /\ \A j \in (i + 1)..Len(s) : s[j] # c) - 1
    ELSE -1

\* &s[a..b] with 0-based a, b; the caller checks a <= b <= len first
Slice(s, a, b) == SubSeq(s, a + 1, b)
SliceOk(s, a, b) == 0 <= a /\ a <= b /\ b <= Len(s)

\* str::trim_right
RECURSIVE TrimRight(_)
TrimRight(s) ==
    IF s = <<>> THEN s
    ELSE IF s[Len(s)] \in White THEN TrimRight(SubSeq(s, 1, Len(s) - 1))
    ELSE s

\* str::split(pattern): n separators give n + 1 pieces, empty ones
\* included.  Computed by halves: the last piece of the left half and the
\* first piece of the right half are one piece.
RECURSIVE Split(_, _)
Split(s, seps) ==
    IF Len(s) = 0 THEN << <<>> >>
    ELSE IF Len(s) = 1 THEN (IF s[1] \in seps THEN << <<>>, <<>> >> ELSE <<s>>)
    ELSE LET h == Len(s) \div 2
             l == Split(SubSeq(s, 1, h), seps)
             r == Split(SubSeq(s, h + 1, Len(s)), seps)
         IN SubSeq(l, 1, Len(l) - 1) \o <<l[Len(l)] \o r[1]>>
            \o SubSeq(r, 2, Len(r))

\* str::split_terminator(pattern): split, minus an empty last piece
SplitTerminator(s, seps) ==
    LET p == Split(s, seps)
    IN IF p[Len(p)] = <<>> THEN SubSeq(p, 1, Len(p) - 1) ELSE p

\* str::splitn(2, ' '): at most two pieces, cut at the first space
SplitN2(s) ==
    LET i == Find(s, " ")
    IN IF i < 0 THEN <<s>>
       ELSE <<Slice(s, 0, i), Slice(s, i + 1, Len(s))>>

RECURSIVE Join(_, _)
Join(parts, sep) ==
    IF Len(parts) = 0 THEN <<>>
    ELSE IF Len(parts) = 1 THEN parts[1]
    ELSE LET h == Len(parts) \div 2
         IN Join(SubSeq(parts, 1, h), sep) \o sep
            \o Join(SubSeq(parts, h + 1, Len(parts)), sep)

-----------------------------------------------------------------------------
(* Machine integers                                                        *)

LimbBase == 2 ^ 16
ZeroLimbs(n) == [i \in 1..n |-> 0]

\* x * m + c over the limbs of x; the carry out is the extra last limb
RECURSIVE MulAddLimbs(_, _, _)
MulAddLimbs(x, m, c) ==
    IF x = <<>> THEN <<c>>
    ELSE LET t == Head(x) * m + c
         IN <<t % LimbBase>> \o MulAddLimbs(Tail(x), m, t \div LimbBase)

\* checked_mul(m) then checked_add(c) on an n-limb unsigned: None as <<>>
CheckedMulAdd(x, m, c) ==
    LET r == MulAddLimbs(x, m, c)
    IN IF r[Len(r)] = 0 THEN SubSeq(r, 1, Len(x)) ELSE <<>>

\* wrapping_mul(m) on an n-limb unsigned: the low n limbs
WrappingMul(x, m) == SubSeq(MulAddLimbs(x, m, 0), 1, Len(x))

\* two's complement negation on n limbs: !x + 1
NegLimbs(x) ==
    SubSeq(MulAddLimbs([i \in 1..Len(x) |-> LimbBase - 1 - x[i]], 1, 1),
           1, Len(x))

\* !x on n limbs (bitwise not)
NotLimbs(x) == [i \in 1..Len(x) |-> LimbBase - 1 - x[i]]

\* a small natural as an n-limb unsigned
ToLimbs(v, n) == [i \in 1..n |-> IF i = 1 THEN v % LimbBase
                                 ELSE IF i = 2 THEN v \div LimbBase ELSE 0]

\* the sign bit of an n-limb two's complement value
SignBit(x) == x[Len(x)] >= LimbBase \div 2

\* <unsigned as FromStr>::from_str on n limbs: digits only, Empty,
\* InvalidDigit and Overflow are errors ("ParseIntError")
RECURSIVE ParseDigits(_, _)
ParseDigits(s, acc) ==
    IF s = <<>> THEN Ok(acc)
    ELSE IF ~IsDigit(Head(s)) THEN Err("ParseIntError")
    ELSE LET r == CheckedMulAdd(acc, 10, DigitVal(Head(s)))
         IN IF r = <<>> THEN Err("ParseIntError")
            ELSE ParseDigits(Tail(s), r)

ParseUnsigned(s, n) ==
    IF s = <<>> THEN Err("ParseIntError") ELSE ParseDigits(s, ZeroLimbs(n))

\* <signed as FromStr>::from_str on n limbs, the value in two's
\* complement: an optional '-', then digits; the magnitude may reach
\* 2^(w-1) only under '-'
ParseSigned(s, n) ==
    IF s = <<>> THEN Err("ParseIntError")
    ELSE LET neg == Head(s) = "-"
             m == ParseUnsigned(IF neg THEN Tail(s) ELSE s, n)
         IN IF m.kind = "Err" THEN m
            ELSE IF ~SignBit(m.val) THEN
                     Ok(IF neg THEN NegLimbs(m.val) ELSE m.val)
            ELSE IF neg /\ m.val = [ZeroLimbs(n) EXCEPT ![n] = LimbBase \div 2]
                 THEN Ok(m.val)
            ELSE Err("ParseIntError")

\* a * m for a signed n-limb a and a small positive m: <<wrapped, overflowed>>
SignedMul(a, m) ==
    LET neg == SignBit(a)
        mag == IF neg THEN NegLimbs(a) ELSE a
        full == MulAddLimbs(mag, m, 0)
        low == SubSeq(full, 1, Len(a))
        wrapped == IF neg THEN NegLimbs(low) ELSE low
        fits == /\ full[Len(full)] = 0
                /\ \/ ~SignBit(low)
                   \/ neg /\ low = [ZeroLimbs(Len(a)) EXCEPT
                                       ![Len(a)] = LimbBase \div 2]
    IN <<wrapped, ~fits>>

-----------------------------------------------------------------------------
(* State (lines 83-126)                                                    *)

StateOfChar ==
    [R |-> "Running", S |-> "Sleeping", D |-> "Waiting", T |-> "Stopped",
     t |-> "Traced", W |-> "Paging", Z |-> "Zombie", X |-> "Dead",
     I |-> "Idle"]

\* State::from_char
State_from_char(c) ==
    IF c \in DOMAIN StateOfChar THEN Ok(StateOfChar[c])
    ELSE Err(ErrInvalidState)

\* `!s.len() == 1`: the bitwise complement of the usize length, compared
\* with 1
LenIsNotOne(s) == NotLimbs(ToLimbs(Len(s), 4)) = ToLimbs(1, 4)

\* <State as FromStr>::from_str
State_from_str(s) ==
    IF LenIsNotOne(s) THEN Err(ErrNotSingle)
    ELSE IF s = <<>> THEN Panic      \* chars().nth(0) is None: unwrap()
    ELSE State_from_char(s[1])

-----------------------------------------------------------------------------
(* System constants (lines 60-67) and procfs reads (lines 69-80)           *)

\* sysconf(_SC_CLK_TCK) and sysconf(_SC_PAGESIZE) of the machine modelled
TICKS_PER_SECOND == 100
PAGE_SIZE == 4096

\* utils::read_file on /proc/[pid]/[name]: the text, or the open() error
\* of a directory that is gone
read_file(alive, text) == IF alive THEN Ok(text) ELSE Err(ErrNotFound)

\* procfs(pid, name)
procfs(alive, text) == read_file(alive, text)

\* fs::metadata("/proc/[pid]/"): the owner, or the error of a missing entry
fs_metadata(alive, owner) == IF alive THEN Ok(owner) ELSE Err(ErrNotFound)

-----------------------------------------------------------------------------
(* Process::new (lines 340-433)                                            *)

\* The struct literal of lines 377-432: field, 0-based position in the
\* trailing fields, parsed type, conversion
F(name, pos, ty, conv) == [name |-> name, pos |-> pos, ty |-> ty, conv |-> conv]

ProcessFields == <<
    F("state", 0, "State", "raw"),        F("ppid", 1, "i32", "raw"),
    F("pgrp", 2, "i32", "raw"),           F("session", 3, "i32", "raw"),
    F("tty_nr", 4, "i32", "raw"),         F("tpgid", 5, "i32", "raw"),
    F("flags", 6, "u32", "raw"),          F("minflt", 7, "u64", "raw"),
    F("cminflt", 8, "u64", "raw"),        F("majflt", 9, "u64", "raw"),
    F("cmajflt", 10, "u64", "raw"),       F("utime", 11, "u64", "ticks"),
    F("stime", 12, "u64", "ticks"),       F("cutime", 13, "i64", "ticks"),
    F("cstime", 14, "i64", "ticks"),      F("priority", 15, "i64", "raw"),
    F("nice", 16, "i64", "raw"),          F("num_threads", 17, "i64", "raw"),
    F("starttime", 19, "u64", "raw"),     F("vsize", 20, "u64", "raw"),
    F("rss", 21, "i64", "pages"),         F("rsslim", 22, "u64", "raw"),
    F("startcode", 23, "u64", "raw"),     F("endcode", 24, "u64", "raw"),
    F("startstack", 25, "u64", "raw"),    F("kstkesp", 26, "u64", "raw"),
    F("kstkeip", 27, "u64", "raw"),       F("wchan", 32, "u64", "raw"),
    F("exit_signal", 35, "i32", "raw"),   F("processor", 36, "i32", "raw"),
    F("rt_priority", 37, "u32", "raw"),   F("policy", 38, "u32", "raw"),
    F("delayacct_blkio_ticks", 39, "u64", "raw"),
    F("guest_time", 40, "u64", "ticks"),  F("cguest_time", 41, "i64", "ticks"),
    F("start_data", 42, "u64", "raw"),    F("end_data", 43, "u64", "raw"),
    F("start_brk", 44, "u64", "raw"),     F("arg_start", 45, "u64", "raw"),
    F("arg_end", 46, "u64", "raw"),       F("env_start", 47, "u64", "raw"),
    F("env_end", 48, "u64", "raw"),       F("exit_code", 49, "i32", "raw") >>

\* FromStr::from_str at the field's declared type
ParseField(tok, ty) ==
    CASE ty = "State" -> State_from_str(tok)
      [] ty = "i32" -> ParseSigned(tok, 2)
      [] ty = "u32" -> ParseUnsigned(tok, 2)
      [] ty = "i64" -> ParseSigned(tok, 4)
      [] ty = "u64" -> ParseUnsigned(tok, 4)

\* One field initialiser: from_str!(stat[pos]) is from_str(..).unwrap();
\* a time is `ticks as f64 / TICKS_PER_SECOND`, kept as the quotient's two
\* terms; rss is `pages * PAGE_SIZE` on i64, which panics on overflow in a
\* build with overflow checks and wraps in one without
FieldValue(stat, f, dbg) ==
    LET r == ParseField(stat[f.pos + 1], f.ty)
    IN IF r.kind # "Ok" THEN Panic
       ELSE IF f.conv = "ticks" THEN
           Ok([ticks |-> r.val, per |-> TICKS_PER_SECOND])
       ELSE IF f.conv = "pages" THEN
           LET m == SignedMul(r.val, PAGE_SIZE)
           IN IF m[2] /\ dbg THEN Panic ELSE Ok(m[1])
       ELSE r

\* Process::parse_comm: s[1..s.len()]; the slice handed in ends before the
\* closing parenthesis.  (parse_comm_drop_last: the variant s[1..s.len()-1],
\* which takes the slice to include it.)
parse_comm_drop_last(s) == Slice(s, 1, Len(s) - 1)
parse_comm(s) == Slice(s, 1, Len(s))

ProcessFieldNames == {ProcessFields[i].name : i \in 1..Len(ProcessFields)}
FieldNamed(n) ==
    ProcessFields[CHOOSE i \in 1..Len(ProcessFields) : ProcessFields[i].name = n]

\* lines 377-432: every initialiser is evaluated; one that panics unwinds
BuildProcess(pid, meta, cmd, stat, dbg) ==
    LET vals == [n \in ProcessFieldNames |-> FieldValue(stat, FieldNamed(n), dbg)]
    IN IF \E n \in ProcessFieldNames : vals[n].kind # "Ok" THEN Panic
       ELSE Ok([n \in {"pid", "uid", "gid", "comm"} \cup ProcessFieldNames |->
                  CASE n = "pid" -> pid
                    [] n = "uid" -> meta.uid
                    [] n = "gid" -> meta.gid
                    [] n = "comm" -> cmd
                    [] OTHER -> vals[n].val])

\* lines 359-432, on the text of /proc/[pid]/stat and the metadata read
Process_parse(stat, meta, dbg) ==
    LET iter == SplitN2(stat)
        pid == ParseSigned(iter[1], 2)
    IN IF pid.kind # "Ok" THEN Panic                       \* line 361
       ELSE IF Len(iter) < 2 THEN Panic                    \* line 364
       ELSE
       LET rest == iter[2]
           start_of_cmd == Find(rest, "(")
           end_of_cmd == RFind(rest, ")")
       IN IF start_of_cmd < 0 THEN Panic                   \* line 365
          ELSE IF end_of_cmd < 0 THEN Panic                \* line 366
          ELSE IF ~SliceOk(rest, start_of_cmd, end_of_cmd) THEN Panic
          ELSE IF ~SliceOk(rest, end_of_cmd + 2, Len(rest)) THEN Panic
          ELSE
          LET cmd == parse_comm(Slice(rest, start_of_cmd, end_of_cmd))
              fields == Split(TrimRight(Slice(rest, end_of_cmd + 2, Len(rest))),
                              {" "})
          IN IF Len(fields) # 50 THEN Err(ErrFieldCount)
             ELSE BuildProcess(pid.val, meta, cmd, fields, dbg)

\* line 356: try!(fs::metadata(path))
Process_new_meta(alive, owner) == fs_metadata(alive, owner)

\* lines 357-432: try!(procfs(pid, "stat")), then the decode.
\* (Process_new_stat_unwrap: the variant with .unwrap() for try!.)
Process_new_stat_unwrap(alive, stat, meta, dbg) ==
    LET r == procfs(alive, stat)
    IN IF r.kind = "Err" THEN Panic ELSE Process_parse(r.val, meta, dbg)
Process_new_stat(alive, stat, meta, dbg) ==
    LET r == procfs(alive, stat)
    IN IF r.kind = "Err" THEN r ELSE Process_parse(r.val, meta, dbg)

\* <Process as PartialEq>::eq.  (Process_eq_pid_only: the variant that
\* leaves starttime out.)
Process_eq_pid_only(a, b) == a.pid = b.pid
Process_eq(a, b) == (a.pid = b.pid) /\ (a.starttime = b.starttime)

-----------------------------------------------------------------------------
(* Memory::new (lines 171-191)                                             *)

\* bytes[k] * *PAGE_SIZE as u64: `*` on u64 panics on overflow in a build
\* with overflow checks and wraps in one without
MulPage(x, dbg) ==
    IF CheckedMulAdd(x, PAGE_SIZE, 0) = <<>> /\ dbg THEN Panic
    ELSE Ok(WrappingMul(x, PAGE_SIZE))

\* lines 174-189, on the text of /proc/[pid]/statm
Memory_parse(statm, dbg) ==
    LET toks == Split(TrimRight(statm), {" "})
        parsed == [i \in 1..Len(toks) |-> ParseUnsigned(toks[i], 4)]
    IN IF \E i \in 1..Len(toks) : parsed[i].kind # "Ok" THEN Panic \* line 177
       ELSE IF Len(toks) < 6 THEN Panic     \* bytes[k] out of range
       ELSE
       LET bytes == [i \in 1..Len(toks) |-> parsed[i].val]
           size == MulPage(bytes[1], dbg)
           resident == MulPage(bytes[2], dbg)
           share == MulPage(bytes[3], dbg)
           text == MulPage(bytes[4], dbg)
       IN IF \E r \in {size, resident, share, text} : r.kind # "Ok" THEN Panic
          ELSE Ok([size |-> size.val, resident |-> resident.val,
                   share |-> share.val, text |-> text.val,
                   data |-> WrappingMul(bytes[6], PAGE_SIZE)])

\* line 173: try!(procfs(pid, "statm")), then the decode
Memory_new(alive, statm, dbg) ==
    LET r == procfs(alive, statm)
    IN IF r.kind = "Err" THEN r ELSE Memory_parse(r.val, dbg)

-----------------------------------------------------------------------------
(* Process::cmdline_vec (lines 448-465)                                    *)

None == [some |-> FALSE]
Some(v) == [some |-> TRUE, v |-> v]

\* lines 458-459: split_terminator(|c| c == '\0' || c == ' ').
\* (cmdline_split_keep_last: the variant with split for split_terminator.)
cmdline_split_keep_last(cmdline) == Split(cmdline, {"NUL", " "})
cmdline_split(cmdline) == SplitTerminator(cmdline, {"NUL", " "})

cmdline_vec(alive, text) ==
    LET cmdline == procfs(alive, text)
    IN IF cmdline.kind = "Err" THEN cmdline
       ELSE IF cmdline.val = <<>> THEN Ok(None)
       ELSE Ok(Some(cmdline_split(cmdline.val)))

-----------------------------------------------------------------------------
(* all() (lines 505-519)                                                   *)

\* pid.to_string() in procfs_path, for the pids of the model
PidToString(pid) == Dec(pid[1] + pid[2] * LimbBase)

\* line 512: FromStr::from_str(&file_name) at type PID
EntryPid(name) == ParseSigned(name, 2)

-----------------------------------------------------------------------------
(* Variable groups and their values while a component is not in use        *)

NoOut == [kind |-> "None"]
NoShape == [of |-> "none"]
Owners == {[uid |-> 0, gid |-> 0], [uid |-> 1000, gid |-> 100]}

stVars == <<st_in, st_op, st_pc, st_out>>
procVars == <<proc_alive, proc_owner, proc_stat, proc_statm, proc_cmdline>>
newVars == <<new_pc, new_meta, new_out, n_meta_reads, n_stat_reads>>
envVars == <<exit_point, setuid_point, prev_owner>>
memVars == <<mem_pc, mem_out>>
cmdVars == <<cmd_pc, cmd_out>>
eqVars == <<eq_a, eq_b, eq_pc, eq_out>>
allVars == <<all_entries, all_alive, all_i, all_pc, all_meta, all_processes,
             all_exited>>

StIdle == st_in = <<>> /\ st_op = "none" /\ st_pc = "off" /\ st_out = NoOut
ProcIdle ==
    /\ proc_alive = FALSE /\ proc_owner = [uid |-> 0, gid |-> 0]
    /\ proc_stat = <<>> /\ proc_statm = <<>> /\ proc_cmdline = <<>>
NewIdle ==
    /\ new_pc = "off" /\ new_meta = [uid |-> 0, gid |-> 0] /\ new_out = NoOut
    /\ n_meta_reads = 0 /\ n_stat_reads = 0
EnvIdle ==
    exit_point = "none" /\ setuid_point = "none"
    /\ prev_owner = [uid |-> 0, gid |-> 0]
MemIdle == mem_pc = "off" /\ mem_out = NoOut
CmdIdle == cmd_pc = "off" /\ cmd_out = NoOut
EqIdle == eq_a = NoOut /\ eq_b = NoOut /\ eq_pc = "off" /\ eq_out = FALSE
AllIdle ==
    /\ all_entries = <<>> /\ all_alive = {} /\ all_i = 0 /\ all_pc = "off"
    /\ all_meta = [uid |-> 0, gid |-> 0] /\ all_processes = <<>>
    /\ all_exited = {}

-----------------------------------------------------------------------------
(* The state character decoder on every short string                       *)

MaxStateLen == 2
StateAlphabet == DOMAIN StateOfChar \cup {"Q", "x", "r"}
StateInputs == UNION {[1..n -> StateAlphabet] : n \in 0..MaxStateLen}

StateInit ==
    /\ st_in \in StateInputs /\ st_op = "none" /\ st_pc = "ready"
    /\ st_out = NoOut
    /\ debug_assertions = FALSE /\ in_shape = NoShape
    /\ ProcIdle /\ NewIdle /\ EnvIdle /\ MemIdle /\ CmdIdle /\ EqIdle /\ AllIdle

\* a caller applies <State as FromStr>::from_str to the text
Call_from_str ==
    /\ st_pc = "ready"
    /\ st_op' = "from_str" /\ st_out' = State_from_str(st_in)
    /\ st_pc' = "done"
    /\ UNCHANGED <<st_in, debug_assertions, in_shape, procVars, newVars,
                   envVars, memVars, cmdVars, eqVars, allVars>>

\* a caller applies State::from_char to a character
Call_from_char ==
    /\ st_pc = "ready" /\ Len(st_in) = 1
    /\ st_op' = "from_char" /\ st_out' = State_from_char(st_in[1])
    /\ st_pc' = "done"
    /\ UNCHANGED <<st_in, debug_assertions, in_shape, procVars, newVars,
                   envVars, memVars, cmdVars, eqVars, allVars>>

StateNext == Call_from_str \/ Call_from_char
SpecState == StateInit /\ [][StateNext]_vars

\* C7: State decoding fails with an error value on every input outside the
\* nine state characters: from_char returns "Invalid state character" for a
\* character outside {R,S,D,T,t,W,Z,X,I}; from_str returns "State is not a
\* single character" for every string whose length is not 1, and otherwise
\* the result of from_char on its character.
C7_StateDecodeErrors ==
    st_pc = "done" =>
        /\ st_op = "from_char" /\ st_in[1] \notin {"R", "S", "D", "T", "t", "W", "Z", "X", "I"}
              => st_out = Err(ErrInvalidState)
        /\ st_op = "from_str" /\ Len(st_in) # 1 => st_out = Err(ErrNotSingle)
        /\ st_op = "from_str" /\ Len(st_in) = 1
              => st_out = State_from_char(st_in[1])

-----------------------------------------------------------------------------
(* /proc/[pid]/stat records the decoder is run on                          *)

\* a character repeated
Rep(c, n) == [i \in 1..n |-> c]

I64MaxText == <<"9","2","2","3","3","7","2","0","3","6","8","5","4","7","7",
                "5","8","0","7">>
U64MaxText == <<"1","8","4","4","6","7","4","4","0","7","3","7","0","9","5",
                "5","1","6","1","5">>
U32OverText == <<"4","2","9","4","9","6","7","2","9","6">>

\* the trailing fields of a live process, by 0-based position
GoodField(k) ==
    CASE k = 0 -> <<"S">>
      [] k = 1 -> Dec(1)
      [] k = 11 -> Dec(250)
      [] k = 13 -> <<"-">> \o Dec(3)
      [] k = 15 -> Dec(20)
      [] k = 17 -> Dec(1)
      [] k = 19 -> Dec(100)
      [] k = 20 -> Dec(70000)
      [] k = 21 -> Dec(5)
      [] k = 22 -> U64MaxText
      [] k = 35 -> Dec(17)
      [] OTHER -> Dec(0)
GoodFields == [i \in 1..50 |-> GoodField(i - 1)]
With(k, tok) == [GoodFields EXCEPT ![k + 1] = tok]

\* a tail: the fields after "(comm)", whether the separator follows the
\* closing parenthesis, whether a newline ends the record
TailOf(fields, sep, nl) == [fields |-> fields, sep |-> sep, nl |-> nl]

Variants ==
    [ok |-> TailOf(GoodFields, TRUE, TRUE),
     start200 |-> TailOf(With(19, Dec(200)), TRUE, TRUE),
     junk_unused |-> TailOf(With(18, <<"x">>), TRUE, TRUE),
     f49 |-> TailOf(SubSeq(GoodFields, 1, 49), TRUE, TRUE),
     f51 |-> TailOf(Append(GoodFields, Dec(0)), TRUE, TRUE),
     f1 |-> TailOf(<<<<"S">>>>, TRUE, TRUE),
     f0_nl |-> TailOf(<<>>, TRUE, TRUE),
     f0_end_nl |-> TailOf(<<>>, FALSE, TRUE),
     f0_end |-> TailOf(<<>>, FALSE, FALSE),
     neg_utime |-> TailOf(With(11, <<"-", "5">>), TRUE, TRUE),
     bad_ppid |-> TailOf(With(1, <<"x">>), TRUE, TRUE),
     bad_state |-> TailOf(With(0, <<"Q">>), TRUE, TRUE),
     state_two |-> TailOf(With(0, <<"R", "x">>), TRUE, TRUE),
     flags_over |-> TailOf(With(6, U32OverText), TRUE, TRUE),
     rss_max |-> TailOf(With(21, I64MaxText), TRUE, TRUE)]

\* variants with 50 fields of which a used one is not of its declared type
BadFieldVariants == {"neg_utime", "bad_ppid", "bad_state", "flags_over"}

WeirdComm == <<"w", " ", "(", "n", ")", " ", "p">>
PidTexts == {Dec(1), Dec(2), <<"x">>}
CommTexts == {<<"a">>, WeirdComm}
StatShapes ==
    [of : {"stat"}, pid : PidTexts, comm : CommTexts, variant : DOMAIN Variants]

\* the record: pid, space, "(", comm, ")", then the tail
StatText(shape) ==
    LET t == Variants[shape.variant]
    IN shape.pid \o <<" ", "(">> \o shape.comm \o <<")">>
       \o (IF t.sep THEN <<" ">> ELSE <<>>)
       \o Join(t.fields, <<" ">>)
       \o (IF t.nl THEN <<"\n">> ELSE <<>>)

-----------------------------------------------------------------------------
(* Process::new on one process that may exit or change owner meanwhile     *)

StatInit ==
    /\ in_shape \in StatShapes
    /\ debug_assertions \in BOOLEAN
    /\ proc_alive = TRUE /\ proc_owner \in Owners
    /\ proc_stat = StatText(in_shape)
    /\ proc_statm = <<>> /\ proc_cmdline = <<>>
    /\ new_pc = "start" /\ new_meta = [uid |-> 0, gid |-> 0] /\ new_out = NoOut
    /\ n_meta_reads = 0 /\ n_stat_reads = 0
    /\ EnvIdle /\ StIdle /\ MemIdle /\ CmdIdle /\ EqIdle /\ AllIdle

\* line 356: the metadata read; try! returns its error
New_metadata ==
    /\ new_pc = "start"
    /\ n_meta_reads' = n_meta_reads + 1
    /\ LET m == Process_new_meta(proc_alive, proc_owner)
       IN IF m.kind = "Err"
          THEN new_out' = m /\ new_pc' = "done" /\ UNCHANGED new_meta
          ELSE new_meta' = m.val /\ new_pc' = "meta" /\ UNCHANGED new_out
    /\ UNCHANGED <<n_stat_reads, debug_assertions, in_shape, procVars, envVars,
                   stVars, memVars, cmdVars, eqVars, allVars>>

\* lines 357-432: the stat read and the decode
New_stat ==
    /\ new_pc = "meta"
    /\ n_stat_reads' = n_stat_reads + 1
    /\ new_out' = Process_new_stat(proc_alive, proc_stat, new_meta,
                                   debug_assertions)
    /\ new_pc' = "done"
    /\ UNCHANGED <<new_meta, n_meta_reads, debug_assertions, in_shape,
                   procVars, envVars, stVars, memVars, cmdVars, eqVars,
                   allVars>>

\* the process exits: /proc/[pid] is gone from now on
ProcExit ==
    /\ proc_alive /\ exit_point = "none"
    /\ proc_alive' = FALSE
    /\ exit_point' = new_pc
    /\ UNCHANGED <<proc_owner, proc_stat, proc_statm, proc_cmdline,
                   setuid_point, prev_owner, newVars, debug_assertions,
                   in_shape, stVars, memVars, cmdVars, eqVars, allVars>>

\* the process changes its credentials: /proc/[pid] changes owner
ProcSetuid ==
    /\ proc_alive /\ setuid_point = "none"
    /\ \E o \in Owners \ {proc_owner} : proc_owner' = o
    /\ prev_owner' = proc_owner
    /\ setuid_point' = new_pc
    /\ UNCHANGED <<proc_alive, proc_stat, proc_statm, proc_cmdline,
                   exit_point, newVars, debug_assertions, in_shape, stVars,
                   memVars, cmdVars, eqVars, allVars>>

StatNext == New_metadata \/ New_stat \/ ProcExit \/ ProcSetuid
SpecStat == StatInit /\ [][StatNext]_vars

\* the decode has read the stat record of the shape drawn
StatDecoded == new_pc = "done" /\ n_stat_reads = 1 /\ exit_point \notin {"start", "meta"}

\* C1: a record whose text after "(comm) " does not split into exactly 50
\* fields is answered with the structural error value, never with an abort.
C1_FieldCountError ==
    StatDecoded /\ in_shape.pid # <<"x">>
               /\ Len(Variants[in_shape.variant].fields) # 50
        => new_out = Err(ErrFieldCount)

\* C3: a record of 50 fields with a field (or the pid) that is not of its
\* declared type is answered with an error value, never with an abort.
C3_ParseError ==
    StatDecoded /\ Len(Variants[in_shape.variant].fields) = 50
               /\ (in_shape.variant \in BadFieldVariants \/ in_shape.pid = <<"x">>)
        => new_out.kind = "Err"

\* the text strictly between the first "(" and the last ")" of s
Between(s) ==
    LET open == CHOOSE i \in 1..Len(s) :
                    s[i] = "(" /\ \A j \in 1..(i - 1) : s[j] # "("
        close == CHOOSE i \in 1..Len(s) :
                    s[i] = ")" /\ \A j \in (i + 1)..Len(s) : s[j] # ")"
    IN [k \in 1..(close - open - 1) |-> s[open + k]]

\* C2: the command name of a decoded Process is the text strictly between
\* the first "(" and the last ")" of the record.
C2_CommIsBetweenParens ==
    new_pc = "done" /\ new_out.kind = "Ok"
        => /\ new_out.val.comm = Between(proc_stat)
           /\ new_out.val.comm = in_shape.comm

C2_Witness ==
    /\ new_pc = "done" /\ new_out.kind = "Ok"
    /\ in_shape.comm = WeirdComm /\ new_out.val.comm = WeirdComm

\* C8: a process that exits before the metadata read, or between it and
\* the stat read, gives the not-found error value and no Process, after at
\* most one read of each kind and none after the failed one; the uid and
\* gid of a Process are those of the metadata read, which came before the
\* stat read.
C8_ExitIsNotFound ==
    new_pc = "done" =>
        /\ exit_point \in {"start", "meta"} => new_out = Err(ErrNotFound)
        /\ n_meta_reads = 1 /\ n_stat_reads <= 1
        /\ exit_point = "start" => n_stat_reads = 0
        /\ new_out.kind = "Ok" =>
              LET at_meta == IF setuid_point \in {"meta", "done"}
                             THEN prev_owner ELSE proc_owner
              IN new_out.val.uid = at_meta.uid /\ new_out.val.gid = at_meta.gid

C8_Witness ==
    /\ new_pc = "done" /\ exit_point = "meta" /\ new_out = Err(ErrNotFound)
    /\ n_stat_reads = 1

-----------------------------------------------------------------------------
(* Memory::new on /proc/[pid]/statm records                                *)

MaxStatmFields == 7
Big20Text == Rep("9", 20)
Pow52Text == <<"4","5","0","3","5","9","9","6","2","7","3","7","0","4","9","6">>
StatmTokens ==
    [big20 |-> Big20Text, pow52 |-> Pow52Text, u64max |-> U64MaxText,
     x |-> <<"x">>, neg1 |-> <<"-", "1">>, empty |-> <<>>]

\* the page counts of a live process, by 1-based position
StatmDefault(i) ==
    CASE i = 1 -> Dec(10) [] i = 2 -> Dec(5) [] i = 3 -> Dec(2)
      [] i = 4 -> Dec(1) [] i = 6 -> Dec(7) [] OTHER -> Dec(0)

\* n fields, of which field pos (if not 0) holds the token tok
StatmShapes ==
    {sh \in [of : {"statm"}, n : 0..MaxStatmFields, pos : 0..MaxStatmFields,
             tok : DOMAIN StatmTokens \cup {"none"}] :
        /\ sh.pos <= sh.n
        /\ (sh.pos = 0) = (sh.tok = "none")}

StatmFields(sh) ==
    [i \in 1..sh.n |-> IF i = sh.pos THEN StatmTokens[sh.tok] ELSE StatmDefault(i)]
StatmText(sh) == Join(StatmFields(sh), <<" ">>) \o <<"\n">>

\* the record `10 5 2 1 0 99999999999999999999`
StatmExample == [of |-> "statm", n |-> 6, pos |-> 6, tok |-> "big20"]

MemInit ==
    /\ in_shape \in StatmShapes
    /\ debug_assertions \in BOOLEAN
    /\ proc_alive = TRUE /\ proc_owner = [uid |-> 0, gid |-> 0]
    /\ proc_statm = StatmText(in_shape)
    /\ proc_stat = <<>> /\ proc_cmdline = <<>>
    /\ mem_pc = "ready" /\ mem_out = NoOut
    /\ NewIdle /\ EnvIdle /\ StIdle /\ CmdIdle /\ EqIdle /\ AllIdle

\* Process::memory(): Memory::new(self.pid)
Call_memory ==
    /\ mem_pc = "ready"
    /\ mem_out' = Memory_new(proc_alive, proc_statm, debug_assertions)
    /\ mem_pc' = "done"
    /\ UNCHANGED <<debug_assertions, in_shape, procVars, newVars, envVars,
                   stVars, cmdVars, eqVars, allVars>>

MemNext == Call_memory \/ ProcExit
SpecMem == MemInit /\ [][MemNext]_vars

\* the decode has read the statm record of the shape drawn
MemDecoded == mem_pc = "done" /\ mem_out # Err(ErrNotFound)

\* the value of field i of the shape on 6 limbs (wide enough for 20 digits)
WideValue(sh, i) == ParseDigits(StatmFields(sh)[i], ZeroLimbs(6)).val
WideProduct(sh, i) == MulAddLimbs(WideValue(sh, i), PAGE_SIZE, 0)
Unparseable == {"x", "neg1", "empty"}

\* C5: on `10 5 2 1 0 99999999999999999999` the decode does not panic and
\* data is the product truncated to 64 bits; data is always
\* (field 5 * page_size) mod 2^64; an overflow of size, resident, share or
\* text is detected, not wrapped.
C5_DataWrapsOthersChecked ==
    /\ MemDecoded /\ in_shape = StatmExample
          => /\ mem_out.kind = "Ok"
             /\ mem_out.val.data = SubSeq(WideProduct(in_shape, 6), 1, 4)
    /\ MemDecoded /\ mem_out.kind = "Ok"
          => mem_out.val.data = SubSeq(WideProduct(in_shape, 6), 1, 4)
    /\ MemDecoded /\ in_shape.n >= 6 /\ in_shape.pos \in 1..4
                  /\ in_shape.tok \in {"pow52", "u64max"}
          => mem_out.kind # "Ok"

\* C6: fewer than six fields give a structural error value, a field that
\* is no non-negative integer a parse error value; no abort.
C6_StatmErrors ==
    /\ MemDecoded /\ in_shape.n < 6 /\ in_shape.tok \notin Unparseable
          => mem_out.kind = "Err"
    /\ MemDecoded /\ in_shape.tok \in Unparseable => mem_out.kind = "Err"

-----------------------------------------------------------------------------
(* Process::cmdline_vec on /proc/[pid]/cmdline records                     *)

MaxCmdLen == 3
CmdAlphabet == {"a", "b", "NUL", " "}
FooBar == <<"f", "o", "o", "NUL", "b", "a", "r", "NUL">>
CmdInputs == UNION {[1..n -> CmdAlphabet] : n \in 0..MaxCmdLen} \cup {FooBar}

CmdInit ==
    /\ proc_cmdline \in CmdInputs
    /\ proc_alive = TRUE /\ proc_owner = [uid |-> 0, gid |-> 0]
    /\ proc_stat = <<>> /\ proc_statm = <<>>
    /\ cmd_pc = "ready" /\ cmd_out = NoOut
    /\ debug_assertions = FALSE /\ in_shape = NoShape
    /\ NewIdle /\ EnvIdle /\ StIdle /\ MemIdle /\ EqIdle /\ AllIdle

Call_cmdline_vec ==
    /\ cmd_pc = "ready"
    /\ cmd_out' = cmdline_vec(proc_alive, proc_cmdline)
    /\ cmd_pc' = "done"
    /\ UNCHANGED <<debug_assertions, in_shape, procVars, newVars, envVars,
                   stVars, memVars, eqVars, allVars>>

CmdNext == Call_cmdline_vec \/ ProcExit
SpecCmd == CmdInit /\ [][CmdNext]_vars

\* the positions of the separators of s, and the k-th of them (0 before
\* the text, Len(s) + 1 after it)
SepAt(s) == {i \in 1..Len(s) : s[i] \in {"NUL", " "}}
NthSep(s, k) ==
    IF k = 0 THEN 0
    ELSE IF k > Cardinality(SepAt(s)) THEN Len(s) + 1
    ELSE CHOOSE i \in SepAt(s) : Cardinality({j \in SepAt(s) : j <= i}) = k

\* the tokens of s: what lies between consecutive separators, and after
\* the last one if the text does not end with a separator
Tokens(s) ==
    LET n == Cardinality(SepAt(s)) + (IF s[Len(s)] \in {"NUL", " "} THEN 0 ELSE 1)
    IN [k \in 1..n |-> SubSeq(s, NthSep(s, k - 1) + 1, NthSep(s, k) - 1)]

-----------------------------------------------------------------------------
(* Process equality on pairs of decoded Process values                     *)

EqShapes ==
    [of : {"stat"}, pid : {Dec(1), Dec(2)}, comm : CommTexts,
     variant : {"ok", "start200", "state_two"}]
Decoded ==
    {Process_parse(StatText(sh), o, FALSE).val : sh \in EqShapes, o \in Owners}

EqInit ==
    /\ eq_a \in Decoded /\ eq_b \in Decoded
    /\ eq_pc = "ready" /\ eq_out = FALSE
    /\ debug_assertions = FALSE /\ in_shape = NoShape
    /\ ProcIdle /\ NewIdle /\ EnvIdle /\ StIdle /\ MemIdle /\ CmdIdle /\ AllIdle

\* a == b
Call_eq ==
    /\ eq_pc = "ready"
    /\ eq_out' = Process_eq(eq_a, eq_b)
    /\ eq_pc' = "done"
    /\ UNCHANGED <<eq_a, eq_b, debug_assertions, in_shape, procVars, newVars,
                   envVars, stVars, memVars, cmdVars, allVars>>

EqNext == Call_eq
SpecEq == EqInit /\ [][EqNext]_vars

\* C10: a == b exactly when the pids are equal and the start times are
\* equal, whatever the other fields.
C10_EqIsPidAndStarttime ==
    eq_pc = "done" =>
        (eq_out <=> (eq_a.pid = eq_b.pid /\ eq_a.starttime = eq_b.starttime))

C10_Witness ==
    /\ eq_pc = "done" /\ eq_out
    /\ eq_a.comm # eq_b.comm /\ eq_a.uid # eq_b.uid /\ eq_a.gid # eq_b.gid
    /\ eq_a.state # eq_b.state

-----------------------------------------------------------------------------
(* all() over a /proc whose processes may exit during the scan             *)

MaxExits == 2
MaxPid == 3
SelfName == <<"s", "e", "l", "f">>
ProcListing == [i \in 1..(MaxPid + 1) |->
                   IF i = 1 THEN Dec(1) ELSE IF i = 2 THEN SelfName ELSE Dec(i - 1)]
StatOf(name) == StatText([of |-> "stat", pid |-> name, comm |-> <<"a">>,
                          variant |-> "ok"])
RootOwner == [uid |-> 0, gid |-> 0]

AllInit ==
    /\ all_alive \in SUBSET {Dec(p) : p \in 1..MaxPid}
    /\ all_entries = <<>> /\ all_i = 0 /\ all_pc = "start"
    /\ all_meta = RootOwner /\ all_processes = <<>> /\ all_exited = {}
    /\ debug_assertions \in BOOLEAN /\ in_shape = NoShape
    /\ ProcIdle /\ NewIdle /\ EnvIdle /\ StIdle /\ MemIdle /\ CmdIdle /\ EqIdle

Present(name) == name = SelfName \/ name \in all_alive

\* line 509: read_dir("/proc")
All_read_dir ==
    /\ all_pc = "start"
    /\ all_entries' = SelectSeq(ProcListing, Present)
    /\ all_i' = 1 /\ all_pc' = "entry"
    /\ UNCHANGED <<all_alive, all_meta, all_processes, all_exited,
                   debug_assertions, in_shape, procVars, newVars, envVars,
                   stVars, memVars, cmdVars, eqVars>>

\* lines 509-515: the next entry; a name that is no PID is passed over
All_entry ==
    /\ all_pc = "entry"
    /\ IF all_i > Len(all_entries)
       THEN all_pc' = "done" /\ UNCHANGED all_i
       ELSE IF EntryPid(all_entries[all_i]).kind = "Err"
       THEN all_i' = all_i + 1 /\ UNCHANGED all_pc
       ELSE all_pc' = "meta" /\ UNCHANGED all_i
    /\ UNCHANGED <<all_entries, all_alive, all_meta, all_processes, all_exited,
                   debug_assertions, in_shape, procVars, newVars, envVars,
                   stVars, memVars, cmdVars, eqVars>>

\* line 513, Process::new(pid): the metadata read; .unwrap() on its error
All_new_metadata ==
    /\ all_pc = "meta"
    /\ LET dir == PidToString(EntryPid(all_entries[all_i]).val)
           m == Process_new_meta(dir \in all_alive, RootOwner)
       IN IF m.kind = "Err"
          THEN all_pc' = "panic" /\ UNCHANGED all_meta
          ELSE all_pc' = "stat" /\ all_meta' = m.val
    /\ UNCHANGED <<all_entries, all_alive, all_i, all_processes, all_exited,
                   debug_assertions, in_shape, procVars, newVars, envVars,
                   stVars, memVars, cmdVars, eqVars>>

\* line 513, Process::new(pid): the stat read and the decode; .unwrap(),
\* then push
All_new_stat ==
    /\ all_pc = "stat"
    /\ LET dir == PidToString(EntryPid(all_entries[all_i]).val)
           r == Process_new_stat(dir \in all_alive, StatOf(dir), all_meta,
                                 debug_assertions)
       IN IF r.kind = "Ok"
          THEN /\ all_processes' = Append(all_processes, r.val)
               /\ all_i' = all_i + 1 /\ all_pc' = "entry"
          ELSE all_pc' = "panic" /\ UNCHANGED <<all_processes, all_i>>
    /\ UNCHANGED <<all_entries, all_alive, all_meta, all_exited,
                   debug_assertions, in_shape, procVars, newVars, envVars,
                   stVars, memVars, cmdVars, eqVars>>

\* a listed process exits during the scan
All_proc_exit ==
    /\ all_pc \in {"entry", "meta", "stat"}
    /\ Cardinality(all_exited) < MaxExits
    /\ \E name \in all_alive :
          /\ all_alive' = all_alive \ {name}
          /\ all_exited' = all_exited \cup {name}
    /\ UNCHANGED <<all_entries, all_i, all_pc, all_meta, all_processes,
                   debug_assertions, in_shape, procVars, newVars, envVars,
                   stVars, memVars, cmdVars, eqVars>>

AllNext ==
    All_read_dir \/ All_entry \/ All_new_metadata \/ All_new_stat
    \/ All_proc_exit
SpecAll == AllInit /\ [][AllNext]_vars

ListedPids == {all_entries[i] : i \in 1..Len(all_entries)} \ {SelfName}
ReturnedPids == {PidToString(all_processes[i].pid) : i \in 1..Len(all_processes)}

\* C4: when a listed process exits before or while it is decoded, the
\* enumeration still ends normally, with a Process for every other listed
\* entry.
C4_ExitDoesNotAbortListing ==
    all_pc \in {"done", "panic"} =>
        /\ all_pc = "done"
        /\ (ListedPids \ all_exited) \subseteq ReturnedPids

====
